---------------------------- MODULE Spec2Model ----------------------------
(***************************************************************************)
(* A model of the cellular-automaton engine: the toroidal Grid and its     *)
(* index arithmetic (automaton.rs), the MooreNeighbors iterator, the Life  *)
(* rule, the double-buffered Supervisor (supervisor.rs) and the viewport   *)
(* handlers of the yew component (main.rs).                                *)
(*                                                                         *)
(* Conventions.  A Grid's Vec<State> is a function 0..(width*height-1) ->  *)
(* {"Dead","Alife"}.  A panic (index out of bounds, remainder by zero) is  *)
(* terminal: the handler stops where it panicked, panicked becomes TRUE    *)
(* and no further handler runs.  isize/usize are modelled as unbounded     *)
(* integers: every input is drawn far from the 64-bit limits.  f64 values  *)
(* are modelled as exact rationals with NaN and the infinities (no         *)
(* rounding, no signed zero).                                              *)
(***************************************************************************)
EXTENDS Integers, Sequences, FiniteSets, TLC

VARIABLES
    width, height,      \* front_buf.width / front_buf.height
    swap_width,         \* swap_buf.width
    swap_height,        \* swap_buf.height
    front_buf,          \* Supervisor.front_buf.grid
    swap_buf,           \* Supervisor.swap_buf.grid
    scale,              \* Supervisor.scale : [mode, v]
    trans,              \* Supervisor.trans : [x, y]
    canvas,             \* Model.canvas is Some(..)
    last_mouse_click,   \* Model.last_mouse_click : None or <<[x, y]>>
    auto_run,           \* Settings.auto_run
    disabled,           \* history: toggle_auto_run switched auto_run off last
    panicked,           \* a handler panicked
    lastOp,             \* history: the last operation and its arguments
    pre_front,          \* history: front_buf before the last operation
    pre_swap,           \* history: swap_buf before the last operation
    pre_scale,          \* history: scale before the last operation
    pre_trans,          \* history: trans before the last operation
    twice_pre,          \* history: front_buf before two equal toggles in a row
    ref,                \* history: the single-grid reference model
    nops,               \* history: number of operations so far
    iter,               \* MooreNeighbors : [range, curr_x, curr_y, done]
    yielded,            \* history: the items next() has returned
    ended               \* history: next() has returned None

vars == <<width, height, swap_width, swap_height, front_buf, swap_buf, scale, trans, canvas,
          last_mouse_click, auto_run, disabled, panicked,
          lastOp, pre_front, pre_swap, pre_scale, pre_trans, twice_pre, ref, nops,
          iter, yielded, ended>>

(***************************************************************************)
(* Bounds of the model.                                                    *)
(***************************************************************************)
MaxDim == 2         \* grids of 0..MaxDim columns and rows
MaxOps == 3         \* operations per run of the Supervisor
MaxRange == 4       \* MooreNeighbors<0> .. MooreNeighbors<MaxRange>
MaxEvents == 4      \* viewport events per run
MaxCanvas == 2      \* canvas sides of 0..MaxCanvas half grid widths
MaxInputs == 3      \* pointer, timer and settings events per run

Dims == 0..MaxDim
\* coordinates handed to the grid: negative, zero, beyond the grid, and the
\* negative multiples of every dimension
Coords == (0 - MaxDim)..MaxDim

(***************************************************************************)
(* Cell states (automaton.rs, LifeStates) and Grid::generate.              *)
(***************************************************************************)
LifeStates == {"Dead", "Alife"}

DefaultState == "Dead"

CELL_WIDTH == 50

\* AutomatonWrapper::new(20, 20) in Model::create
GRID_SIZE == 20

\* generate with the inclusive range 0..=width * height
GenerateInclusive(w, h) == [i \in 0..(w * h) |-> DefaultState]

\* Grid::generate: (0..width * height) cells, all Default
Generate(w, h) == [i \in 0..(w * h - 1) |-> DefaultState]

(***************************************************************************)
(* Grid::to_idx.  Each axis: c >= 0 wraps by remainder; c < 0 becomes      *)
(* dimension - (|c| % dimension).  A zero dimension makes the remainder    *)
(* panic; -1 stands for "no index was computed".                           *)
(***************************************************************************)
Abs(c) == IF c >= 0 THEN c ELSE 0 - c

ToIdxAxis(c, dim) == IF c >= 0 THEN c % dim ELSE dim - (Abs(c) % dim)

ToIdxPanics(w, h) == w = 0 \/ h = 0

ToIdx(w, h, x, y) ==
    IF ToIdxPanics(w, h) THEN -1
    ELSE ToIdxAxis(x, w) + ToIdxAxis(y, h) * w

\* Index / IndexMut for Grid: self.grid[self.to_idx(x, y)] panics when to_idx
\* panics or when the index is not below the Vec's length.
IndexPanics(grid, w, h, x, y) ==
    \/ ToIdxPanics(w, h)
    \/ ToIdx(w, h, x, y) \notin DOMAIN grid

GridGet(grid, w, h, x, y) == grid[ToIdx(w, h, x, y)]

GridSet(grid, w, h, x, y, v) == [grid EXCEPT ![ToIdx(w, h, x, y)] = v]

(***************************************************************************)
(* MooreNeighbors<RANGE>: new() and Iterator::next().                      *)
(***************************************************************************)
MooreNew(range) ==
    [range |-> range, curr_x |-> 0 - range, curr_y |-> 0 - range, done |-> FALSE]

\* next() with the "Next row" branch forgetting to rewind curr_x
MooreNextNoRewind(it) ==
    IF it.done THEN
        [it |-> it, some |-> FALSE, item |-> <<0, 0>>]
    ELSE IF it.curr_x = it.range /\ it.curr_y = it.range THEN
        [it |-> [it EXCEPT !.done = TRUE],
         some |-> TRUE, item |-> <<it.curr_x, it.curr_y>>]
    ELSE IF it.curr_x = it.range THEN
        [it |-> [it EXCEPT !.curr_y = it.curr_y + 1],
         some |-> TRUE, item |-> <<it.curr_x, it.curr_y>>]
    ELSE
        [it |-> [it EXCEPT !.curr_x = it.curr_x + 1],
         some |-> TRUE, item |-> <<it.curr_x, it.curr_y>>]

\* next(): the iterator afterwards and the item returned (some = FALSE: None)
MooreNext(it) ==
    IF it.done THEN
        [it |-> it, some |-> FALSE, item |-> <<0, 0>>]
    ELSE IF it.curr_x = it.range /\ it.curr_y = it.range THEN
        [it |-> [it EXCEPT !.done = TRUE],
         some |-> TRUE, item |-> <<it.curr_x, it.curr_y>>]
    ELSE IF it.curr_x = it.range THEN
        [it |-> [it EXCEPT !.curr_x = 0 - it.range, !.curr_y = it.curr_y + 1],
         some |-> TRUE, item |-> <<it.curr_x, it.curr_y>>]
    ELSE
        [it |-> [it EXCEPT !.curr_x = it.curr_x + 1],
         some |-> TRUE, item |-> <<it.curr_x, it.curr_y>>]

\* collect(): call next() until it returns None
RECURSIVE MooreDrain(_, _)
MooreDrain(it, acc) ==
    LET r == MooreNext(it)
    IN  IF r.some THEN MooreDrain(r.it, Append(acc, r.item)) ELSE acc

MooreCollect(range) == MooreDrain(MooreNew(range), <<>>)

(***************************************************************************)
(* Life (automaton.rs): update, toggle.                                    *)
(***************************************************************************)
\* .filter(|(x, y)| *x != 0 || *y != 0)
LifeNeighbors == SelectSeq(MooreCollect(1), LAMBDA o : o[1] # 0 \/ o[2] # 0)

LifeUpdatePanics(grid, w, h, pos_x, pos_y) ==
    \/ \E k \in 1..Len(LifeNeighbors) :
          IndexPanics(grid, w, h, LifeNeighbors[k][1] + pos_x, LifeNeighbors[k][2] + pos_y)
    \/ IndexPanics(grid, w, h, pos_x, pos_y)

RECURSIVE LifeSum(_, _, _, _, _, _)
LifeSum(grid, w, h, pos_x, pos_y, k) ==
    IF k = 0 THEN 0
    ELSE LifeSum(grid, w, h, pos_x, pos_y, k - 1)
         + (IF GridGet(grid, w, h, LifeNeighbors[k][1] + pos_x,
                       LifeNeighbors[k][2] + pos_y) = "Alife" THEN 1 ELSE 0)

\* the rule with a lonely Alife cell surviving
LifeRuleTableNoLoneliness(sum, curr) ==
    IF sum \in 0..3 /\ curr = "Alife" THEN "Alife"
    ELSE IF sum = 3 /\ curr = "Dead" THEN "Alife"
    ELSE "Dead"

\* the rule with a crowded Alife cell surviving
LifeRuleTableNoCrowding(sum, curr) ==
    IF sum >= 2 /\ curr = "Alife" THEN "Alife"
    ELSE IF sum = 3 /\ curr = "Dead" THEN "Alife"
    ELSE "Dead"

LifeRuleTable(sum, curr) ==
    IF sum \in 2..3 /\ curr = "Alife" THEN "Alife"
    ELSE IF sum = 3 /\ curr = "Dead" THEN "Alife"
    ELSE "Dead"

\* only evaluated where LifeUpdatePanics is FALSE
LifeUpdate(grid, w, h, pos_x, pos_y) ==
    LifeRuleTable(LifeSum(grid, w, h, pos_x, pos_y, Len(LifeNeighbors)),
                  GridGet(grid, w, h, pos_x, pos_y))

LifeToggleStuckAlife(curr) == "Alife"

LifeToggle(curr) == IF curr = "Dead" THEN "Alife" ELSE "Dead"

(***************************************************************************)
(* f64 values: exact rationals n/d (d > 0, lowest terms), NaN, +-infinity. *)
(***************************************************************************)
RECURSIVE Gcd(_, _)
Gcd(a, b) == IF b = 0 THEN a ELSE Gcd(b, a % b)

NaN == [k |-> "nan", n |-> 0, d |-> 1]

Inf(sign) == [k |-> "inf", n |-> sign, d |-> 1]

Sign(n) == IF n > 0 THEN 1 ELSE IF n < 0 THEN -1 ELSE 0

\* the rational n/d, d # 0
Rat(n, d) ==
    LET g == Gcd(Abs(n), Abs(d))
        s == IF d < 0 THEN -1 ELSE 1
    IN  [k |-> "fin", n |-> (s * n) \div g, d |-> (s * d) \div g]

FromInt(i) == Rat(i, 1)

IsFin(a) == a.k = "fin"

FAdd(a, b) ==
    IF a.k = "nan" \/ b.k = "nan" THEN NaN
    ELSE IF a.k = "inf" /\ b.k = "inf" THEN (IF a.n = b.n THEN a ELSE NaN)
    ELSE IF a.k = "inf" THEN a
    ELSE IF b.k = "inf" THEN b
    ELSE Rat(a.n * b.d + b.n * a.d, a.d * b.d)

FNeg(a) == IF a.k = "nan" THEN NaN ELSE [a EXCEPT !.n = 0 - a.n]

FSub(a, b) == FAdd(a, FNeg(b))

FMul(a, b) ==
    IF a.k = "nan" \/ b.k = "nan" THEN NaN
    ELSE IF a.k = "inf" \/ b.k = "inf" THEN
        (IF a.n = 0 \/ b.n = 0 THEN NaN ELSE Inf(Sign(a.n) * Sign(b.n)))
    ELSE Rat(a.n * b.n, a.d * b.d)

\* IEEE division: x/0 is an infinity, 0/0 and inf/inf are NaN
FDiv(a, b) ==
    IF a.k = "nan" \/ b.k = "nan" THEN NaN
    ELSE IF a.k = "inf" THEN (IF b.k = "inf" THEN NaN
                              ELSE Inf(a.n * (IF b.n < 0 THEN -1 ELSE 1)))
    ELSE IF b.k = "inf" THEN FromInt(0)
    ELSE IF b.n = 0 THEN (IF a.n = 0 THEN NaN ELSE Inf(Sign(a.n)))
    ELSE Rat(a.n * b.d, a.d * b.n)

\* a < b on non-NaN values
FLess(a, b) ==
    IF a.k = "inf" THEN a.n = -1 /\ ~(b.k = "inf" /\ b.n = -1)
    ELSE IF b.k = "inf" THEN b.n = 1
    ELSE a.n * b.d < b.n * a.d

\* f64::min / f64::max: a NaN operand is ignored
FMin(a, b) ==
    IF a.k = "nan" THEN b ELSE IF b.k = "nan" THEN a
    ELSE IF FLess(b, a) THEN b ELSE a

FMax(a, b) ==
    IF a.k = "nan" THEN b ELSE IF b.k = "nan" THEN a
    ELSE IF FLess(a, b) THEN b ELSE a

(***************************************************************************)
(* Supervisor (supervisor.rs) / AutomatonWrapper (main.rs).                *)
(***************************************************************************)
ScaleAuto(v) == [mode |-> "Auto", v |-> v]

ScaleManual(v) == [mode |-> "Manual", v |-> v]

Point(x, y) == [x |-> x, y |-> y]

\* the loops of update(): front is written in place, src is only read.
\* for y in 0..height: front_buf[(x, y)] = A::update((x, y), &swap_buf), the
\* column stopping at the first panic
RECURSIVE UpdateColumn(_, _, _, _, _, _, _, _)
UpdateColumn(front, w, h, src, sw, sh, x, y) ==
    IF y = h THEN [front |-> front, panicked |-> FALSE]
    ELSE IF \/ LifeUpdatePanics(src, sw, sh, x, y)
            \/ IndexPanics(front, w, h, x, y)
         THEN [front |-> front, panicked |-> TRUE]
         ELSE UpdateColumn(GridSet(front, w, h, x, y, LifeUpdate(src, sw, sh, x, y)),
                           w, h, src, sw, sh, x, y + 1)

\* for x in 0..width: the column x, the loop stopping at the first panic
RECURSIVE UpdateLoop(_, _, _, _, _, _, _)
UpdateLoop(front, w, h, src, sw, sh, x) ==
    IF x = w THEN [front |-> front, panicked |-> FALSE]
    ELSE LET col == UpdateColumn(front, w, h, src, sw, sh, x, 0)
         IN  IF col.panicked THEN col
             ELSE UpdateLoop(col.front, w, h, src, sw, sh, x + 1)

\* update() without the mem::swap: the front buffer rewritten in place
SupervisorUpdateInPlace(front, w, h, swap, sw, sh) ==
    LET r == UpdateLoop(front, w, h, front, w, h, 0)
    IN  [front |-> r.front, width |-> w, height |-> h,
         swap |-> swap, swap_width |-> sw, swap_height |-> sh,
         panicked |-> r.panicked]

\* update(): mem::swap of the two Grids (cells, width and height), then the
\* loop over the new front_buf, reading swap_buf and writing front_buf
SupervisorUpdate(front, w, h, swap, sw, sh) ==
    LET r == UpdateLoop(swap, sw, sh, front, w, h, 0)
    IN  [front |-> r.front, width |-> sw, height |-> sh,
         swap |-> front, swap_width |-> w, swap_height |-> h,
         panicked |-> r.panicked]

\* toggle(x, y): read front_buf[(x, y)], write A::toggle of it back
SupervisorToggle(front, w, h, x, y) ==
    IF IndexPanics(front, w, h, x, y)
    THEN [front |-> front, panicked |-> TRUE]
    ELSE [front |-> GridSet(front, w, h, x, y, LifeToggle(GridGet(front, w, h, x, y))),
          panicked |-> FALSE]

\* reset_zoom(target_width, target_height): the Auto scale that fits the grid
\* and the translation that centres it
ResetZoomResult(w, h, target_width, target_height) ==
    LET tw == FromInt(target_width)
        th == FromInt(target_height)
        curr_width == FromInt(w * CELL_WIDTH)
        curr_height == FromInt(h * CELL_WIDTH)
        width_scale == FDiv(tw, curr_width)
        height_scale == FDiv(th, curr_height)
        min_scale == FMin(width_scale, height_scale)
        offset_x == FDiv(FSub(FDiv(tw, min_scale), curr_width), FromInt(2))
        offset_y == FDiv(FSub(FDiv(th, min_scale), curr_height), FromInt(2))
    IN  [scale |-> ScaleAuto(min_scale), trans |-> Point(offset_x, offset_y)]

\* from_screen_coordinates: trans.inverse_transform_point(obj / scale.raw())
FromScreen(sc, tr, obj) ==
    Point(FSub(FDiv(obj.x, sc.v), tr.x), FSub(FDiv(obj.y, sc.v), tr.y))

\* to_screen_coordinates with the translation applied after the scaling
ToScreenTranslateLast(sc, tr, obj) ==
    Point(FAdd(FMul(sc.v, obj.x), tr.x), FAdd(FMul(sc.v, obj.y), tr.y))

\* to_screen_coordinates: scale.raw() * trans.transform_point(obj)
ToScreen(sc, tr, obj) ==
    Point(FMul(sc.v, FAdd(obj.x, tr.x)), FMul(sc.v, FAdd(obj.y, tr.y)))

(***************************************************************************)
(* History records.                                                        *)
(***************************************************************************)
Op(name, x, y, idx, res) == [name |-> name, x |-> x, y |-> y, idx |-> idx, res |-> res]

None == <<>>

\* the mathematical modulo the toroidal grid is specified with
Wrap(c, dim) == c % dim

\* the reference model: one grid, replaced at once by the synchronous Life
\* map; a toggle flips the cell the wrapped coordinates address
RefAlive(g, w, h, x, y) ==
    Cardinality({o \in ((-1..1) \X (-1..1)) \ {<<0, 0>>} :
                    g[Wrap(x + o[1], w) + Wrap(y + o[2], h) * w] = "Alife"})

RefRule(g, w, h, x, y) ==
    LET n == RefAlive(g, w, h, x, y)
        c == g[Wrap(x, w) + Wrap(y, h) * w]
    IN  IF (c = "Alife" /\ n \in {2, 3}) \/ (c = "Dead" /\ n = 3)
        THEN "Alife" ELSE "Dead"

RefStep(g, w, h) == [i \in DOMAIN g |-> RefRule(g, w, h, i % w, i \div w)]

RefToggle(g, w, h, x, y) ==
    IF w = 0 \/ h = 0 THEN g
    ELSE LET i == Wrap(x, w) + Wrap(y, h) * w
         IN  [g EXCEPT ![i] = IF g[i] = "Dead" THEN "Alife" ELSE "Dead"]

(***************************************************************************)
(* Spec: the Supervisor under step() and toggle(x, y).                     *)
(***************************************************************************)
IterIdle ==
    /\ iter = MooreNew(0)
    /\ yielded = <<>>
    /\ ended = FALSE

\* Supervisor::new(w, h)
New(w, h) ==
    /\ width = w
    /\ height = h
    /\ swap_width = w
    /\ swap_height = h
    /\ front_buf = Generate(w, h)
    /\ swap_buf = Generate(w, h)
    /\ trans = Point(FromInt(0), FromInt(0))
    /\ scale = ScaleAuto(FromInt(1))
    /\ canvas = FALSE
    /\ last_mouse_click = None
    /\ auto_run = FALSE
    /\ disabled = FALSE
    /\ panicked = FALSE
    /\ lastOp = Op("new", w, h, -1, "none")
    /\ pre_front = Generate(w, h)
    /\ pre_swap = Generate(w, h)
    /\ pre_scale = ScaleAuto(FromInt(1))
    /\ pre_trans = Point(FromInt(0), FromInt(0))
    /\ twice_pre = None
    /\ ref = Generate(w, h)
    /\ nops = 0

Init ==
    /\ \E w \in Dims, h \in Dims : New(w, h)
    /\ IterIdle

\* Supervisor::update / AutomatonWrapper::update (Msg::Update)
Step ==
    /\ ~panicked
    /\ nops < MaxOps
    /\ LET r == SupervisorUpdate(front_buf, width, height,
                                 swap_buf, swap_width, swap_height)
       IN  /\ front_buf' = r.front
           /\ width' = r.width
           /\ height' = r.height
           /\ swap_buf' = r.swap
           /\ swap_width' = r.swap_width
           /\ swap_height' = r.swap_height
           /\ panicked' = r.panicked
    /\ lastOp' = Op("step", 0, 0, -1, "none")
    /\ pre_front' = front_buf
    /\ pre_swap' = swap_buf
    /\ pre_scale' = scale
    /\ pre_trans' = trans
    /\ twice_pre' = None
    /\ ref' = RefStep(ref, width, height)
    /\ nops' = nops + 1
    /\ UNCHANGED <<scale, trans, canvas, last_mouse_click, auto_run, disabled,
                   iter, yielded, ended>>

\* Supervisor::toggle(x, y)
Toggle(x, y) ==
    /\ ~panicked
    /\ nops < MaxOps
    /\ LET r == SupervisorToggle(front_buf, width, height, x, y)
       IN  /\ front_buf' = r.front
           /\ panicked' = r.panicked
    /\ lastOp' = Op("toggle", x, y, ToIdx(width, height, x, y), "none")
    /\ pre_front' = front_buf
    /\ pre_swap' = swap_buf
    /\ pre_scale' = scale
    /\ pre_trans' = trans
    /\ twice_pre' = IF lastOp.name = "toggle" /\ lastOp.x = x /\ lastOp.y = y
                    THEN <<pre_front>> ELSE None
    /\ ref' = RefToggle(ref, width, height, x, y)
    /\ nops' = nops + 1
    /\ UNCHANGED <<width, height, swap_width, swap_height, swap_buf, scale, trans, canvas, last_mouse_click,
                   auto_run, disabled, iter, yielded, ended>>

Next ==
    \/ Step
    \/ \E x \in Coords, y \in Coords : Toggle(x, y)

Spec == Init /\ [][Next]_vars

(***************************************************************************)
(* Claims about the Supervisor, checked under Spec.                        *)
(***************************************************************************)
InRange == {c \in (0..(width - 1)) \X (0..(height - 1)) : TRUE}

\* C3: after one step(), every in-range cell (x, y) of the front buffer holds
\* Automaton.update((x, y), G), G being the whole front buffer from before
\* the call.
C3_StepUsesPriorGeneration ==
    (lastOp.name = "step" /\ width > 0 /\ height > 0) =>
        /\ ~panicked
        /\ \A c \in InRange :
              /\ ~LifeUpdatePanics(pre_front, width, height, c[1], c[2])
              /\ front_buf[c[1] + c[2] * width]
                   = LifeUpdate(pre_front, width, height, c[1], c[2])

\* C4: after any sequence of step() and toggle(x, y) calls on a new Supervisor
\* the front buffer equals the single-grid reference model run on the same
\* sequence.
C4_FrontRefinesReference == front_buf = ref

\* C7: a zero width or height is rejected at construction: no zero-sized grid
\* ever exists.
C7_NoZeroSizedGrid == width > 0 /\ height > 0

\* C8: toggle(x, y), for any integers x and y, replaces only the front-buffer
\* cell the wrapped (x, y) addresses by Automaton.toggle of its old value; the
\* rest of the front buffer, the back buffer, the scale and the translation
\* are unchanged.
C8_ToggleFrame ==
    (lastOp.name = "toggle" /\ width > 0 /\ height > 0) =>
        LET i == Wrap(lastOp.x, width) + Wrap(lastOp.y, height) * width
        IN  /\ ~panicked
            /\ front_buf = [pre_front EXCEPT ![i] = LifeToggle(pre_front[i])]
            /\ swap_buf = pre_swap
            /\ scale = ScaleAuto(FromInt(1))
            /\ trans = Point(FromInt(0), FromInt(0))

\* C9: Life.toggle is self-inverse, and two toggle(x, y) calls in a row with
\* the same coordinates restore the front buffer to its previous content.
C9_ToggleSelfInverse ==
    /\ \A st \in LifeStates : LifeToggle(LifeToggle(st)) = st
    /\ twice_pre # None => front_buf = twice_pre[1]

\* two equal toggles in a row have run on a non-empty grid, and the first one
\* changed the front buffer
C9_Witness ==
    /\ twice_pre # None
    /\ ~panicked
    /\ pre_front # front_buf

\* C13: after step() the back buffer equals, cell for cell, the front buffer
\* as it was immediately before the call, and scale and translation are
\* unchanged.
C13_StepFrame ==
    lastOp.name = "step" =>
        /\ swap_buf = pre_front
        /\ scale = pre_scale
        /\ trans = pre_trans

\* a step() has completed on a front buffer that held an Alife cell and that
\* differed from the back buffer
C13_Witness ==
    /\ lastOp.name = "step"
    /\ ~panicked
    /\ \E i \in DOMAIN pre_front : pre_front[i] = "Alife"
    /\ pre_front # pre_swap

\* the in-range cells of g that are Alife
AliveCells(g) == {c \in InRange : g[c[1] + c[2] * width] = "Alife"}

C19_StepCompletes ==
    (lastOp.name = "step" /\ width > 0 /\ height > 0) =>
        /\ ~panicked
        /\ \A c \in InRange, k \in 1..Len(LifeNeighbors) :
              LET x == c[1] + LifeNeighbors[k][1]
                  y == c[2] + LifeNeighbors[k][2]
              IN  ToIdx(width, height, x, y) = Wrap(x, width) + Wrap(y, height) * width

\* a Grid of w x h whose Vec holds exactly w * h cells
WellFormed(g, w, h) == DOMAIN g = 0..(w * h - 1)

\* C21: in every reachable state the front and the back buffer both have the
\* width and height given at construction and each holds exactly
\* width * height cells; swapping the buffers never changes or mixes
\* dimensions.
C21_BufferDimensions ==
    /\ [](/\ WellFormed(front_buf, width, height)
          /\ WellFormed(swap_buf, swap_width, swap_height)
          /\ swap_width = width
          /\ swap_height = height)
    /\ [][/\ width' = width
          /\ height' = height
          /\ swap_width' = swap_width
          /\ swap_height' = swap_height]_vars

\* a second step() has completed, swapping two buffers of different content
C21_Witness ==
    /\ lastOp.name = "step"
    /\ ~panicked
    /\ nops >= 3
    /\ pre_front # pre_swap
    /\ swap_buf # pre_swap

(***************************************************************************)
(* SpecGrid: the Grid and Life API called with arbitrary coordinates on    *)
(* the grid of a new Supervisor (front_buf).                               *)
(***************************************************************************)
GridFrame ==
    UNCHANGED <<width, height, swap_width, swap_height, swap_buf, scale, trans, canvas, last_mouse_click,
                auto_run, disabled, pre_scale, pre_trans, twice_pre, ref, nops,
                iter, yielded, ended>>

\* grid[(x, y)] = v  (IndexMut)
GridWrite(x, y, v) ==
    /\ ~panicked
    /\ IF IndexPanics(front_buf, width, height, x, y)
       THEN front_buf' = front_buf /\ panicked' = TRUE
       ELSE front_buf' = GridSet(front_buf, width, height, x, y, v) /\ panicked' = FALSE
    /\ lastOp' = Op("set", x, y, ToIdx(width, height, x, y), v)
    /\ pre_front' = front_buf
    /\ pre_swap' = swap_buf
    /\ GridFrame

\* &grid[(x, y)]  (Index)
GridRead(x, y) ==
    /\ ~panicked
    /\ panicked' = IndexPanics(front_buf, width, height, x, y)
    /\ lastOp' = Op("get", x, y, ToIdx(width, height, x, y),
                    IF IndexPanics(front_buf, width, height, x, y) THEN "panic"
                    ELSE GridGet(front_buf, width, height, x, y))
    /\ pre_front' = front_buf
    /\ pre_swap' = swap_buf
    /\ UNCHANGED front_buf
    /\ GridFrame

\* Life::update((x, y), &grid)
LifeUpdateCall(x, y) ==
    /\ ~panicked
    /\ panicked' = LifeUpdatePanics(front_buf, width, height, x, y)
    /\ lastOp' = Op("update", x, y, -1,
                    IF LifeUpdatePanics(front_buf, width, height, x, y) THEN "panic"
                    ELSE LifeUpdate(front_buf, width, height, x, y))
    /\ pre_front' = front_buf
    /\ pre_swap' = swap_buf
    /\ UNCHANGED front_buf
    /\ GridFrame

NextGrid ==
    \/ \E x \in Coords, y \in Coords, v \in LifeStates : GridWrite(x, y, v)
    \/ \E x \in Coords, y \in Coords : GridRead(x, y)
    \/ \E x \in Coords, y \in Coords : LifeUpdateCall(x, y)

SpecGrid == Init /\ [][NextGrid]_vars

\* C1: on a grid with W > 0 and H > 0, reading or writing at any integer pair
\* (x, y) never fails and never computes an index outside [0, W*H).
C1_IndexInRange ==
    (lastOp.name \in {"get", "set"} /\ width > 0 /\ height > 0) =>
        /\ ~panicked
        /\ lastOp.idx \in 0..(width * height - 1)

\* C2: the cell addressed by (x, y) is the one at row-major index
\* (x mod W) + (y mod H) * W, mod being the mathematical modulo.
C2_IndexIsModulo ==
    (lastOp.name \in {"get", "set"} /\ width > 0 /\ height > 0) =>
        lastOp.idx = Wrap(lastOp.x, width) + Wrap(lastOp.y, height) * width

\* C5: for every position and grid content Life.update returns Alive exactly
\* when the cell is Alive with 2 or 3 Alive cells among its 8 wrapped
\* neighbours, or Dead with exactly 3; otherwise Dead; the grid is unchanged.
C5_LifeRule ==
    (lastOp.name = "update" /\ width > 0 /\ height > 0) =>
        /\ ~panicked
        /\ lastOp.res = RefRule(pre_front, width, height, lastOp.x, lastOp.y)
        /\ front_buf = pre_front

(***************************************************************************)
(* SpecMoore: MooreNeighbors<R>::new() followed by calls of next().        *)
(***************************************************************************)
InitMoore ==
    /\ New(MaxDim, MaxDim)
    /\ \E r \in 0..MaxRange : iter = MooreNew(r)
    /\ yielded = <<>>
    /\ ended = FALSE

MooreNextCall ==
    /\ LET r == MooreNext(iter)
       IN  /\ iter' = r.it
           /\ yielded' = IF r.some THEN Append(yielded, r.item) ELSE yielded
           /\ ended' = ~r.some
    /\ UNCHANGED <<width, height, swap_width, swap_height, front_buf, swap_buf, scale, trans, canvas,
                   last_mouse_click, auto_run, disabled, panicked,
                   lastOp, pre_front, pre_swap, pre_scale, pre_trans, twice_pre, ref, nops>>

NextMoore == MooreNextCall

SpecMoore == InitMoore /\ [][NextMoore]_vars

\* the square [-R, R] x [-R, R] in row-major scan order (y outer, x inner)
Side(r) == 2 * r + 1

RowMajor(r) ==
    [k \in 1..(Side(r) * Side(r)) |->
        <<((k - 1) % Side(r)) - r, ((k - 1) \div Side(r)) - r>>]

\* C6: MooreNeighbors<R> yields exactly (2R+1)^2 distinct offsets, the square
\* [-R, R] x [-R, R] in row-major order from (-R, -R) to (R, R), then stops.
C6_MooreRowMajor ==
    LET want == RowMajor(iter.range)
    IN  /\ Len(yielded) <= Len(want)
        /\ \A k \in 1..Len(yielded) : yielded[k] = want[k]
        /\ \A j, k \in 1..Len(yielded) : j # k => yielded[j] # yielded[k]
        /\ iter.done <=> Len(yielded) = Len(want)
        /\ iter.done =>
              {yielded[k] : k \in 1..Len(yielded)}
                 = ((0 - iter.range)..iter.range) \X ((0 - iter.range)..iter.range)
        /\ ended => iter.done
        /\ iter.range = 0 /\ ended => yielded = << <<0, 0>> >>

\* an iterator of radius 2 or more has been drained to None
C6_Witness == ended /\ iter.range >= 2 /\ Len(yielded) = Side(iter.range) * Side(iter.range)

(***************************************************************************)
(* SpecView: the viewport handlers of Model::update (main.rs) and          *)
(* Supervisor::reset_zoom on a mounted component.                          *)
(***************************************************************************)
\* canvas.width() / canvas.height() as the browser reports them
CanvasSizes == {k * ((GRID_SIZE * CELL_WIDTH) \div 2) : k \in 0..MaxCanvas}

\* ev.client_x() / ev.client_y()
MousePoints == {0, CELL_WIDTH + 10}

\* ev.delta_y()
WheelDeltas == {-1000, -500, 500}

\* Msg::Scroll with the max(0.0) clamp dropped
ScrollResultNoClamp(sc, tr, mx, my, delta) ==
    LET mouse == Point(FromInt(mx), FromInt(my))
        orig_pos == FromScreen(sc, tr, mouse)
        s1 == ScaleManual(FAdd(sc.v, FMul(Rat(1, 1000), FromInt(delta))))
        trans_adj == Point(FSub(FDiv(mouse.x, s1.v), orig_pos.x),
                           FSub(FDiv(mouse.y, s1.v), orig_pos.y))
    IN  [scale |-> s1, trans |-> trans_adj]

\* Msg::Scroll: the new Manual scale, clamped at 0, and the translation that
\* is meant to keep the point under the cursor fixed
ScrollResult(sc, tr, mx, my, delta) ==
    LET mouse == Point(FromInt(mx), FromInt(my))
        orig_pos == FromScreen(sc, tr, mouse)
        s1 == ScaleManual(FAdd(sc.v, FMul(Rat(1, 1000), FromInt(delta))))
        s2 == ScaleManual(FMax(s1.v, FromInt(0)))
        trans_adj == Point(FSub(FDiv(mouse.x, s2.v), orig_pos.x),
                           FSub(FDiv(mouse.y, s2.v), orig_pos.y))
    IN  [scale |-> s2, trans |-> trans_adj]

\* Msg::Resized with the mode check dropped
ResizedAppliesAlways(sc, cv) == cv

\* Msg::Resized: if let (Scale::Auto(_), Some(canvas)) = (&scale, &canvas)
ResizedApplies(sc, cv) == sc.mode = "Auto" /\ cv

ViewFrame ==
    /\ pre_front' = front_buf
    /\ pre_swap' = swap_buf
    /\ pre_scale' = scale
    /\ pre_trans' = trans
    /\ nops' = nops + 1
    /\ UNCHANGED <<width, height, swap_width, swap_height, front_buf, swap_buf, last_mouse_click, auto_run, disabled,
                   panicked, twice_pre, ref, iter, yielded, ended>>

\* Model::create: the 20 x 20 automaton, no canvas yet
InitView ==
    /\ New(GRID_SIZE, GRID_SIZE)
    /\ IterIdle

\* Component::rendered(first_render = true): the canvas is looked up and kept
Rendered ==
    /\ ~canvas
    /\ canvas' = TRUE
    /\ lastOp' = Op("rendered", 0, 0, 0, "none")
    /\ UNCHANGED <<scale, trans>>
    /\ ViewFrame

\* Msg::Resized, the canvas being tw x th
Resized(tw, th) ==
    /\ canvas
    /\ nops < MaxEvents
    /\ IF ResizedApplies(scale, canvas)
       THEN LET r == ResetZoomResult(width, height, tw, th)
            IN  scale' = r.scale /\ trans' = r.trans
       ELSE UNCHANGED <<scale, trans>>
    /\ lastOp' = Op("resized", tw, th, 0, "none")
    /\ UNCHANGED canvas
    /\ ViewFrame

\* Msg::Scroll at (mx, my) with wheel delta
Scroll(mx, my, delta) ==
    /\ canvas
    /\ nops < MaxEvents
    /\ LET r == ScrollResult(scale, trans, mx, my, delta)
       IN  scale' = r.scale /\ trans' = r.trans
    /\ lastOp' = Op("scroll", mx, my, delta, "none")
    /\ UNCHANGED canvas
    /\ ViewFrame

\* the auto-fit request: Supervisor::reset_zoom(tw, th)
ResetZoom(tw, th) ==
    /\ canvas
    /\ nops < MaxEvents
    /\ LET r == ResetZoomResult(width, height, tw, th)
       IN  scale' = r.scale /\ trans' = r.trans
    /\ lastOp' = Op("reset_zoom", tw, th, 0, "none")
    /\ UNCHANGED canvas
    /\ ViewFrame

NextView ==
    \/ Rendered
    \/ \E tw \in CanvasSizes, th \in CanvasSizes : Resized(tw, th)
    \/ \E mx \in MousePoints, my \in MousePoints, delta \in WheelDeltas :
          Scroll(mx, my, delta)
    \/ \E tw \in CanvasSizes, th \in CanvasSizes : ResetZoom(tw, th)

SpecView == InitView /\ [][NextView]_vars

\* C10: a Scroll event puts the scale in Manual mode; once the scale is
\* Manual, a Resized event leaves scale and translation unchanged; the scale becomes Auto again only through a
\* reset_zoom request; while the scale is Auto, every Resized event with a
\* canvas present recomputes it as the fit of the grid to the canvas.
C10_ManualSurvivesResize ==
    [][ /\ lastOp'.name = "scroll" => scale'.mode = "Manual"
        /\ (scale.mode = "Manual" /\ lastOp'.name = "resized") =>
              (scale' = scale /\ trans' = trans)
        /\ (scale.mode = "Manual" /\ scale'.mode = "Auto") =>
              lastOp'.name = "reset_zoom"
        /\ (scale.mode = "Auto" /\ canvas /\ lastOp'.name = "resized") =>
              scale' = ScaleAuto(FMin(
                          FDiv(FromInt(lastOp'.x), FromInt(width * CELL_WIDTH)),
                          FDiv(FromInt(lastOp'.y), FromInt(height * CELL_WIDTH))))
      ]_vars

\* a Resized event has been handled while the scale was Manual (set by an
\* earlier Scroll)
C10_Witness ==
    /\ lastOp.name = "resized"
    /\ scale.mode = "Manual"
    /\ nops >= 3

(***************************************************************************)
(* Claims about the viewport, checked under SpecView.                      *)
(***************************************************************************)
IsPositive(a) == FLess(FromInt(0), a)

IsNegative(a) == FLess(a, FromInt(0))

\* C11: no division by a zero scale: whenever the Scroll handler (through
\* from_screen_coordinates with the old scale, then with the new scale in its
\* translation adjustment) or the auto-fit offset computation of reset_zoom /
\* Resized divides by the scale, that scale is strictly positive.
C11_ScaleDivisorPositive ==
    /\ lastOp.name = "scroll" =>
          IsPositive(pre_scale.v) /\ IsPositive(scale.v)
    /\ (lastOp.name = "reset_zoom"
          \/ (lastOp.name = "resized" /\ ResizedApplies(pre_scale, canvas))) =>
          IsPositive(scale.v)

\* C18: after any sequence of Scroll events with arbitrary wheel deltas,
\* interleaved with Resized and reset_zoom, the scale value is never negative.
C18_ScaleNeverNegative == ~IsNegative(scale.v) /\ scale.v # NaN

\* a Scroll whose wheel delta would have taken the scale below zero has been
\* handled, and the clamp has set the scale to zero
C18_Witness ==
    /\ lastOp.name = "scroll"
    /\ IsNegative(FAdd(pre_scale.v, FMul(Rat(1, 1000), FromInt(lastOp.idx))))
    /\ scale.v = FromInt(0)

\* the points the round trip is checked at: integers and fractions, both signs
RoundTripPoints ==
    {Point(Rat(a, 2), Rat(b, 3)) : a \in {-3, 0, 120}, b \in {-50, 0, 7}}

C17_ScrollKeepsCursorPoint ==
    lastOp.name = "scroll" =>
        LET m == Point(FromInt(lastOp.x), FromInt(lastOp.y))
        IN  /\ ToScreen(scale, trans, FromScreen(pre_scale, pre_trans, m)) = m
            /\ front_buf = pre_front
            /\ swap_buf = pre_swap

(***************************************************************************)
(* SpecEvents: the pointer handlers of Model::update, the periodic timer   *)
(* registered by Model::create and Settings::toggle_auto_run.  No event of *)
(* this specification writes the scale, which stays at 1.                  *)
(***************************************************************************)
\* MIN_DRAG: the largest displacement, per axis, that is still a click
MIN_DRAG == Point(5, 5)

\* ev.client_x() / ev.client_y() of the pointer events
PointerCoords == {0, 3, GRID_SIZE * CELL_WIDTH}

\* integer division of isize: the quotient is truncated towards zero
TruncDiv(n, d) == IF n >= 0 THEN n \div d ELSE 0 - ((0 - n) \div d)

\* `f as isize`: truncation towards zero, NaN becomes 0.  The saturation of
\* an infinity at the 64-bit limits is not modelled: with the scale at 1 and
\* an integer translation every position is a number.
F64AsIsize(a) ==
    CASE a.k = "fin" -> TruncDiv(a.n, a.d)
      [] a.k = "nan" -> 0

\* the cell a click at client (px, py) addresses:
\* from_screen_coordinates(..) as isize / CELL_WIDTH as isize
ClickCell(sc, tr, px, py) ==
    LET pos == FromScreen(sc, tr, Point(FromInt(px), FromInt(py)))
    IN  Point(TruncDiv(F64AsIsize(pos.x), CELL_WIDTH),
              TruncDiv(F64AsIsize(pos.y), CELL_WIDTH))

\* diff.x.abs() <= MIN_DRAG.x && diff.y.abs() <= MIN_DRAG.y
IsClick(from, px, py) ==
    Abs(px - from.x) <= MIN_DRAG.x /\ Abs(py - from.y) <= MIN_DRAG.y

EventFrame ==
    /\ pre_front' = front_buf
    /\ pre_swap' = swap_buf
    /\ pre_scale' = scale
    /\ pre_trans' = trans
    /\ twice_pre' = None
    /\ nops' = nops + 1
    /\ UNCHANGED <<scale, canvas, ref, iter, yielded, ended>>

\* Msg::MouseDown: the position is recorded
MouseDown(px, py) ==
    /\ ~panicked
    /\ nops < MaxInputs
    /\ last_mouse_click' = <<Point(px, py)>>
    /\ lastOp' = Op("mousedown", px, py, -1, "none")
    /\ UNCHANGED <<width, height, swap_width, swap_height, front_buf, swap_buf,
                   trans, auto_run, disabled, panicked>>
    /\ EventFrame

\* Msg::MouseUp: a click toggles the cell under the pointer, a drag adds the
\* displacement to the translation, and without a recorded MouseDown nothing
\* is done
MouseUp(px, py) ==
    /\ ~panicked
    /\ nops < MaxInputs
    /\ IF last_mouse_click = None
       THEN /\ lastOp' = Op("mouseup", px, py, -1, "none")
            /\ UNCHANGED <<front_buf, trans, panicked>>
       ELSE LET from == last_mouse_click[1]
            IN  IF IsClick(from, px, py)
                THEN LET cell == ClickCell(scale, trans, px, py)
                         r == SupervisorToggle(front_buf, width, height, cell.x, cell.y)
                     IN  /\ front_buf' = r.front
                         /\ panicked' = r.panicked
                         /\ lastOp' = Op("mouseup", px, py,
                                         ToIdx(width, height, cell.x, cell.y), "click")
                         /\ UNCHANGED trans
                ELSE /\ trans' = Point(FAdd(FromInt(px - from.x), trans.x),
                                       FAdd(FromInt(py - from.y), trans.y))
                     /\ lastOp' = Op("mouseup", px, py, -1, "pan")
                     /\ UNCHANGED <<front_buf, panicked>>
    /\ UNCHANGED <<width, height, swap_width, swap_height, swap_buf,
                   last_mouse_click, auto_run, disabled>>
    /\ EventFrame

\* the Interval registered and forgotten by Model::create fires: Msg::Update
\* runs automaton.update()
Tick ==
    /\ ~panicked
    /\ nops < MaxInputs
    /\ LET r == SupervisorUpdate(front_buf, width, height,
                                 swap_buf, swap_width, swap_height)
       IN  /\ front_buf' = r.front
           /\ width' = r.width
           /\ height' = r.height
           /\ swap_buf' = r.swap
           /\ swap_width' = r.swap_width
           /\ swap_height' = r.swap_height
           /\ panicked' = r.panicked
    /\ lastOp' = Op("tick", 0, 0, -1, "none")
    /\ UNCHANGED <<trans, last_mouse_click, auto_run, disabled>>
    /\ EventFrame

\* Settings::toggle_auto_run
ToggleAutoRun ==
    /\ ~panicked
    /\ nops < MaxInputs
    /\ auto_run' = ~auto_run
    /\ disabled' = auto_run
    /\ lastOp' = Op("toggle_auto_run", 0, 0, -1, "none")
    /\ UNCHANGED <<width, height, swap_width, swap_height, front_buf, swap_buf,
                   trans, last_mouse_click, panicked>>
    /\ EventFrame

NextEvents ==
    \/ \E px \in PointerCoords, py \in PointerCoords : MouseDown(px, py)
    \/ \E px \in PointerCoords, py \in PointerCoords : MouseUp(px, py)
    \/ Tick
    \/ ToggleAutoRun

SpecEvents == InitView /\ [][NextEvents]_vars

\* C12: after auto-run has been disabled (toggle_auto_run taking the flag from
\* true to false) no timer-driven Update occurs until auto-run is enabled
\* again.
C12_NoTickWhileDisabled == lastOp.name = "tick" => ~disabled

\* C20: a MouseUp is classified against the last recorded MouseDown: with a
\* displacement of at most 5 pixels on both axes it is a click, which toggles
\* exactly one front-buffer cell and leaves the translation unchanged;
\* otherwise it is a pan, which adds the displacement to the translation and
\* leaves both buffers unchanged; with no MouseDown recorded it changes
\* nothing.
C20_MouseUpClickOrPan ==
    lastOp.name = "mouseup" =>
        IF last_mouse_click = None
        THEN /\ front_buf = pre_front /\ swap_buf = pre_swap
             /\ scale = pre_scale /\ trans = pre_trans /\ ~panicked
        ELSE LET dx == lastOp.x - last_mouse_click[1].x
                 dy == lastOp.y - last_mouse_click[1].y
             IN  IF Abs(dx) <= 5 /\ Abs(dy) <= 5
                 THEN /\ ~panicked
                      /\ Cardinality({i \in DOMAIN front_buf :
                                         front_buf[i] # pre_front[i]}) = 1
                      /\ trans = pre_trans
                 ELSE /\ trans = Point(FAdd(pre_trans.x, FromInt(dx)),
                                       FAdd(pre_trans.y, FromInt(dy)))
                      /\ front_buf = pre_front
                      /\ swap_buf = pre_swap

(***************************************************************************)
(* SpecBlock: a Supervisor of at least 5 x 5 cells on which the nine cells *)
(* of a 3 x 3 block have been toggled Alife, then step() calls.            *)
(***************************************************************************)
BlockDims == 5..(MaxDim + 4)

\* the coordinates handed to toggle for the block with corner (bx, by); those
\* beyond the last column or row address the cells across the seam
BlockToggles(bx, by) ==
    [k \in 1..9 |-> <<bx + ((k - 1) % 3), by + ((k - 1) \div 3)>>]

\* toggle(x, y) for the first k coordinates of cells
RECURSIVE ToggleAll(_, _, _, _, _)
ToggleAll(front, w, h, cells, k) ==
    IF k = 0 THEN front
    ELSE SupervisorToggle(ToggleAll(front, w, h, cells, k - 1), w, h,
                          cells[k][1], cells[k][2]).front

InitBlock ==
    /\ \E w \in BlockDims, h \in BlockDims :
       \E bx \in 0..(w - 1), by \in 0..(h - 1) :
          /\ width = w
          /\ height = h
          /\ swap_width = w
          /\ swap_height = h
          /\ front_buf = ToggleAll(Generate(w, h), w, h, BlockToggles(bx, by), 9)
          /\ swap_buf = Generate(w, h)
          /\ pre_front = ToggleAll(Generate(w, h), w, h, BlockToggles(bx, by), 8)
          /\ pre_swap = Generate(w, h)
          /\ ref = ToggleAll(Generate(w, h), w, h, BlockToggles(bx, by), 9)
          /\ lastOp = Op("toggle", bx + 2, by + 2, ToIdx(w, h, bx + 2, by + 2), "none")
    /\ trans = Point(FromInt(0), FromInt(0))
    /\ scale = ScaleAuto(FromInt(1))
    /\ pre_trans = Point(FromInt(0), FromInt(0))
    /\ pre_scale = ScaleAuto(FromInt(1))
    /\ canvas = FALSE
    /\ last_mouse_click = None
    /\ auto_run = FALSE
    /\ disabled = FALSE
    /\ panicked = FALSE
    /\ twice_pre = None
    /\ nops = 0
    /\ IterIdle

NextBlock == Step

SpecBlock == InitBlock /\ [][NextBlock]_vars

\* the in-range cells of the 3 x 3 block with corner (bx, by), wrapped
BlockCells(bx, by) ==
    {<<Wrap(bx + i, width), Wrap(by + j, height)>> : i \in 0..2, j \in 0..2}

\* g holds the block with corner (bx, by) Alife and every other cell Dead
IsBlock(g, bx, by) == AliveCells(g) = BlockCells(bx, by)

\* C15: if the front buffer holds a 3 x 3 block of Alife cells and all other
\* cells are Dead, on a grid of at least 5 x 5 with the block anywhere, across
\* the wrap-around seam included, then after one step() the centre of the
\* block is Dead and each of its four corners is still Alife.
C15_BlockStep ==
    (lastOp.name = "step" /\ width >= 5 /\ height >= 5) =>
        \A bx \in 0..(width - 1), by \in 0..(height - 1) :
            IsBlock(pre_front, bx, by) =>
                /\ ~panicked
                /\ front_buf[Wrap(bx + 1, width) + Wrap(by + 1, height) * width] = "Dead"
                /\ \A i \in {0, 2}, j \in {0, 2} :
                      front_buf[Wrap(bx + i, width) + Wrap(by + j, height) * width]
                         = "Alife"

\* a step() has run on a block that lies across the seam in both directions
C15_Witness ==
    /\ lastOp.name = "step"
    /\ \E bx \in 0..(width - 1), by \in 0..(height - 1) :
          /\ IsBlock(pre_front, bx, by)
          /\ bx + 2 >= width
          /\ by + 2 >= height

=============================================================================
